---- MODULE Spec2Model ----
(***************************************************************************)
(* Model of the github_team resource of terraform-provider-github          *)
(* (src/github/resource_github_team.go): the Create, Read, Update and      *)
(* Delete handlers of one or more reconcilers, run against a remote team   *)
(* API whose calls may fail and whose reads may lag behind its writes.     *)
(*                                                                         *)
(* One action is one handler step: a remote call together with the local   *)
(* code that follows it up to the next remote call or the return.          *)
(* Strings that the code parses or formats (the identifier, the parent     *)
(* reference, slugs) are sequences of one-character strings.               *)
(***************************************************************************)
EXTENDS Integers, Sequences, FiniteSets, TLC

\* ------------------------------------------------------------ bounds
MaxTeams == 2
MaxOps == 2

\* ------------------------------------------------- program constants
github_team_api_retry == 10
StatusNotModified == 304
StatusNotFound == 404

\* --------------------------------------------------------- strings
Digits == <<"0", "1", "2", "3", "4", "5", "6", "7", "8", "9">>
DigitChars == {Digits[k] : k \in 1..10}
DigitVal(c) == (CHOOSE k \in 1..10 : Digits[k] = c) - 1
Empty == <<>>

RECURSIVE FormatNat(_)
FormatNat(n) ==
    IF n < 10 THEN <<Digits[n + 1]>>
    ELSE FormatNat(n \div 10) \o <<Digits[(n % 10) + 1]>>

\* strconv.FormatInt(n, 10)
FormatInt(n) == IF n < 0 THEN <<"-">> \o FormatNat(0 - n) ELSE FormatNat(n)

RECURSIVE DigitsValue(_)
DigitsValue(s) ==
    IF s = <<>> THEN 0
    ELSE DigitsValue(SubSeq(s, 1, Len(s) - 1)) * 10 + DigitVal(s[Len(s)])

\* strconv.ParseInt(s, 10, 64): an optional sign, then one or more digits
\* (the identifiers of the model are far from the int64 range).
ParseInt(s) ==
    LET signed == Len(s) > 0 /\ s[1] \in {"+", "-"}
        body == IF signed THEN Tail(s) ELSE s
    IN  IF body = <<>> \/ \E k \in 1..Len(body) : body[k] \notin DigitChars
        THEN [ok |-> FALSE, val |-> 0]
        ELSE [ok |-> TRUE,
              val |-> IF signed /\ s[1] = "-" THEN 0 - DigitsValue(body)
                      ELSE DigitsValue(body)]

\* ---------------------------------------------------------- errors
Nil == [kind |-> "nil", status |-> 0, api |-> "", n |-> 0]
\* *github.ErrorResponse with its HTTP status, from call number n of api
ErrorResponse(status, api, n) ==
    [kind |-> "ErrorResponse", status |-> status, api |-> api, n |-> n]
\* an error that is no *github.ErrorResponse (transport failure, ...)
PlainError(api, n) == [kind |-> "error", status |-> 0, api |-> api, n |-> n]
OtherStatuses == {500}

IsErrorResponse(err) == err.kind = "ErrorResponse"
Is404(err) == IsErrorResponse(err) /\ err.status = StatusNotFound
Is304(err) == IsErrorResponse(err) /\ err.status = StatusNotModified

\* ------------------------------------------------------ remote side
Reconcilers == {1, 2}
TeamIds == 9..(8 + MaxTeams)
NoParent == 0
\* the name of the team other actors make
OtherName == <<"a">>
Creator == "creator"
\* a login another actor adds to a team
OtherMember == "member"

NoTeam ==
    [present |-> FALSE, id |-> 0, name |-> Empty, description |-> "",
     privacy |-> "", parent |-> NoParent, ldap_dn |-> "", members |-> <<>>,
     ver |-> 0]

\* what the remote derives from a team's fields
Slug(team) == team.name
NodeID(team) == <<"T">> \o FormatInt(team.id)
ETag(team) == <<"e">> \o FormatInt(team.ver)

VARIABLES
    teams,      \* remote: team id -> team record (NoTeam when absent)
    nextId,     \* remote: the id the next created team gets
    env,        \* the out-of-band changes other actors may still make
    flaky,      \* whether remote calls may fail or lag
    meta,       \* provider configuration (*Owner)
    active,     \* the reconcilers that run
    nops,       \* handler invocations so far
    pc,         \* reconciler -> position in its handler
    d,          \* reconciler -> *schema.ResourceData
    loc,        \* reconciler -> the handler's local variables
    obs         \* reconciler -> what the running handler has done so far

vars == <<teams, nextId, env, flaky, meta, active, nops, pc, d, loc, obs>>

Present(id) == id \in DOMAIN teams /\ teams[id].present

\* ------------------------------------------------- remote API calls
\* Each call is the set of responses the remote may give in the current
\* state; n numbers the call so that its error can be told from others.
RemoteFaults(api, n, statuses) ==
    IF flaky
    THEN {ErrorResponse(s, api, n) : s \in statuses} \cup {PlainError(api, n)}
    ELSE {}

NoEtag == [set |-> FALSE, val |-> Empty]

\* client.Teams.GetTeamByID; etag is the change-token of the context, which
\* the transport sends as If-None-Match.
GetTeamByID(id, etag, n) ==
    LET api == "GetTeamByID"
        failed(e) == [team |-> NoTeam, etag |-> Empty, err |-> e]
    IN  IF Present(id)
        THEN (IF etag.set /\ etag.val = ETag(teams[id])
              THEN {failed(ErrorResponse(StatusNotModified, api, n))}
              ELSE {[team |-> teams[id], etag |-> ETag(teams[id]), err |-> Nil]})
             \cup {failed(e) :
                     e \in RemoteFaults(api, n, OtherStatuses \cup {StatusNotFound})}
        ELSE {failed(ErrorResponse(StatusNotFound, api, n))}
             \cup {failed(e) : e \in RemoteFaults(api, n, OtherStatuses)}

\* the teams gone when team id is deleted: the team and, transitively, the
\* teams below it
RECURSIVE Below(_, _)
Below(ids, k) ==
    IF k = 0 THEN ids
    ELSE Below(ids \cup {t \in TeamIds : teams[t].present /\ teams[t].parent \in ids},
               k - 1)

Removed(id) == [t \in TeamIds |-> IF t \in Below({id}, MaxTeams) THEN NoTeam ELSE teams[t]]

\* client.Teams.DeleteTeamByID: the error and the remote teams afterwards
DeleteTeamByID(id, n) ==
    LET api == "DeleteTeamByID"
    IN  IF Present(id)
        THEN {[err |-> Nil, teams |-> Removed(id)]}
             \cup {[err |-> e, teams |-> teams] : e \in RemoteFaults(api, n, OtherStatuses)}
        ELSE {[err |-> ErrorResponse(StatusNotFound, api, n), teams |-> teams]}
             \cup {[err |-> e, teams |-> teams] : e \in RemoteFaults(api, n, OtherStatuses)}

\* getTeamID(teamIDString, meta): the id of the team that an id or a slug
\* names, by lookup on the remote side
getTeamID(ref, n) ==
    LET api == "getTeamID"
        byId == ParseInt(ref)
        found == IF byId.ok THEN {t \in TeamIds : teams[t].present /\ t = byId.val}
                 ELSE {t \in TeamIds : teams[t].present /\ Slug(teams[t]) = ref}
    IN  {[teamId |-> t, err |-> Nil] : t \in found}
        \cup (IF found = {} \/ flaky
              THEN {[teamId |-> 0 - 1, err |-> PlainError(api, n)]}
              ELSE {})

NameTaken(name, but) ==
    \E t \in TeamIds \ {but} : teams[t].present /\ teams[t].name = name

\* client.Teams.CreateTeam: the team, the error and the remote side afterwards
CreateTeam(newTeam, n) ==
    LET api == "CreateTeam"
        team == [present |-> TRUE, id |-> nextId, name |-> newTeam.name,
                 description |-> newTeam.description, privacy |-> newTeam.privacy,
                 parent |-> newTeam.parent, ldap_dn |-> "",
                 members |-> <<Creator>>, ver |-> 1]
        valid == /\ nextId \in TeamIds
                 /\ ~NameTaken(newTeam.name, 0)
                 /\ (newTeam.parent = NoParent \/ Present(newTeam.parent))
        failed(e) == [team |-> NoTeam, err |-> e, teams |-> teams, nextId |-> nextId]
    IN  (IF valid
         THEN {[team |-> team, err |-> Nil,
                teams |-> [teams EXCEPT ![nextId] = team], nextId |-> nextId + 1]}
         ELSE {failed(ErrorResponse(422, api, n))})
        \cup {failed(e) : e \in RemoteFaults(api, n, OtherStatuses)}

\* client.Teams.EditTeamByID(ctx, orgId, id, editedTeam, false): a nil
\* ParentTeamID is left out of the request, which keeps the team's parent
EditTeamByID(id, editedTeam, n) ==
    LET api == "EditTeamByID"
        failed(e) == [team |-> NoTeam, err |-> e, teams |-> teams]
    IN  (IF ~Present(id) THEN {failed(ErrorResponse(StatusNotFound, api, n))}
         ELSE IF \/ NameTaken(editedTeam.name, id)
                 \/ editedTeam.parent = id
                 \/ (editedTeam.parent # NoParent /\ ~Present(editedTeam.parent))
         THEN {failed(ErrorResponse(422, api, n))}
         ELSE LET team == [teams[id] EXCEPT
                             !.name = editedTeam.name,
                             !.description = editedTeam.description,
                             !.privacy = editedTeam.privacy,
                             !.parent = IF editedTeam.parent # NoParent
                                        THEN editedTeam.parent ELSE @,
                             !.ver = @ + 1]
              IN  {[team |-> team, err |-> Nil, teams |-> [teams EXCEPT ![id] = team]]})
        \cup {failed(e) : e \in RemoteFaults(api, n, OtherStatuses)}

\* client.Admin.UpdateTeamLDAPMapping
UpdateTeamLDAPMapping(id, ldapDN, n) ==
    LET api == "UpdateTeamLDAPMapping"
    IN  (IF Present(id)
         THEN {[err |-> Nil,
                teams |-> [teams EXCEPT ![id].ldap_dn = ldapDN, ![id].ver = @ + 1]]}
         ELSE {[err |-> ErrorResponse(StatusNotFound, api, n), teams |-> teams]})
        \cup {[err |-> e, teams |-> teams] : e \in RemoteFaults(api, n, OtherStatuses)}

TeamsBySlug(slug) == {t \in TeamIds : teams[t].present /\ Slug(teams[t]) = slug}

\* v4client.Query of the members of the team with a slug
MembersQuery(slug, n) ==
    {[nodes |-> teams[t].members, err |-> Nil] : t \in TeamsBySlug(slug)}
    \cup (IF TeamsBySlug(slug) = {} THEN {[nodes |-> <<>>, err |-> Nil]} ELSE {})
    \cup (IF flaky THEN {[nodes |-> <<>>, err |-> PlainError("Query", n)]} ELSE {})

Without(seq, x) == SelectSeq(seq, LAMBDA y : y # x)

\* client.Teams.RemoveTeamMembershipBySlug
RemoveTeamMembershipBySlug(slug, login, n) ==
    LET api == "RemoveTeamMembershipBySlug"
    IN  {[err |-> Nil,
          teams |-> [teams EXCEPT ![t].members = Without(@, login), ![t].ver = @ + 1]] :
            t \in TeamsBySlug(slug)}
        \cup (IF TeamsBySlug(slug) = {}
              THEN {[err |-> ErrorResponse(StatusNotFound, api, n), teams |-> teams]}
              ELSE {})
        \cup {[err |-> e, teams |-> teams] : e \in RemoteFaults(api, n, OtherStatuses)}

\* ------------------------------------------------ handler-local state
NoData ==
    [id |-> Empty, etag |-> Empty, name |-> Empty, description |-> "",
     privacy |-> "", parent_team_id |-> Empty, ldap_dn |-> "", slug |-> Empty,
     node_id |-> Empty, members_count |-> 0, create_default_maintainer |-> FALSE]

\* github.NewTeam; parent is *ParentTeamID, NoParent when nil
NoNewTeam == [name |-> Empty, description |-> "", privacy |-> "", parent |-> NoParent]

NoLoc ==
    [id |-> 0, ctxEtag |-> NoEtag, i |-> 0, err |-> Nil, team |-> NoTeam,
     resp |-> Empty, teamId |-> 0, newTeam |-> NoNewTeam, githubTeam |-> NoTeam,
     nodes |-> <<>>, hasChangeLdap |-> FALSE]

Running == [kind |-> "running", status |-> 0, api |-> "", n |-> 0]

\* op: the handler the host invoked; fn: the function running (Read is
\* also the tail of Create and Update); d0: the resource data fn was entered
\* with; ret: the handler's result; prevOp, prevOk: the handler invoked
\* before and whether it returned nil. The rest counts the remote calls of
\* the invocation; the lookups of a parent loop are counted until the call
\* that uses the parent has been issued (nLookup of them, nLookupOk without
\* error, the last of those returning lookupId); only404 says that every
\* one of the nGet fetches that failed was answered 404; delErr is what the
\* delete call returned; ldap0 is the ldap_dn of the state Update was
\* invoked with; queried is the member list the membership query returned
\* and removed the logins of the removal calls issued, in the order issued.
NoObs ==
    [op |-> "none", fn |-> "none", d0 |-> NoData, ret |-> Nil,
     prevOp |-> "none", prevOk |-> FALSE,
     nGet |-> 0, only404 |-> TRUE, delErr |-> Nil,
     nLookup |-> 0, nLookupOk |-> 0, lookupId |-> 0, nCreate |-> 0, nEdit |-> 0, nDelete |-> 0,
     nQuery |-> 0, nRemove |-> 0, nLdap |-> 0, ldap0 |-> "",
     queried |-> <<>>, removed |-> <<>>]

\* what a handler invocation starts from: the previous result is kept
Begin(o, op, dd) ==
    [NoObs EXCEPT !.op = op, !.fn = op, !.d0 = dd, !.ret = Running,
                  !.prevOp = o.op, !.prevOk = (o.ret = Nil)]

Goto(r, npc, nd, nloc, nobs) ==
    /\ pc' = [pc EXCEPT ![r] = npc]
    /\ d' = [d EXCEPT ![r] = nd]
    /\ loc' = [loc EXCEPT ![r] = nloc]
    /\ obs' = [obs EXCEPT ![r] = nobs]

Return(r, e, nd, nloc, nobs) == Goto(r, "idle", nd, nloc, [nobs EXCEPT !.ret = e])

\* checkOrganization(meta)
checkOrganization == IF meta.isOrganization THEN Nil ELSE PlainError("checkOrganization", 0)
\* unconvertibleIdErr(d.Id(), err)
unconvertibleIdErr == PlainError("ParseInt", 0)

\* --------------------------------------------- resourceGithubTeamRead
\* ReadLoop with a 404 ending the loop instead of being retried
ReadLoop_NoRetry404(i, err) ==
    IF i < github_team_api_retry
    THEN IF err # Nil
         THEN IF IsErrorResponse(err)
              THEN IF err.status = StatusNotModified THEN "return_nil"
                   ELSE IF err.status = StatusNotFound THEN "exit"
                   ELSE "retry"
              ELSE "return_err"
         ELSE "exit"
    ELSE "exit"

\* ReadLoop with only a 404 retried, any other error response returned
ReadLoop_NoRetryOther(i, err) ==
    IF i < github_team_api_retry
    THEN IF err # Nil
         THEN IF IsErrorResponse(err)
              THEN IF err.status = StatusNotModified THEN "return_nil"
                   ELSE IF err.status = StatusNotFound THEN "retry"
                   ELSE "return_err"
              ELSE "return_err"
         ELSE "exit"
    ELSE "exit"

\* ReadLoop without the not-modified short-circuit
ReadLoop_304Error(i, err) ==
    IF i < github_team_api_retry
    THEN IF err # Nil
         THEN IF IsErrorResponse(err) /\ err.status # StatusNotModified THEN "retry"
              ELSE "return_err"
         ELSE "exit"
    ELSE "exit"

\* ReadLoop with the loop condition i <= github_team_api_retry
ReadLoop_OffByOne(i, err) ==
    IF i <= github_team_api_retry
    THEN IF err # Nil
         THEN IF IsErrorResponse(err)
              THEN IF err.status = StatusNotModified THEN "return_nil"
                   ELSE "retry"
              ELSE "return_err"
         ELSE "exit"
    ELSE "exit"

\* The loop body for loop variable i after a fetch that ended with err.
ReadLoop(i, err) ==
    IF i < github_team_api_retry
    THEN IF err # Nil
         THEN IF IsErrorResponse(err)
              THEN IF err.status = StatusNotModified THEN "return_nil"
                   ELSE "retry"
              ELSE "return_err"
         ELSE "exit"
    ELSE "exit"

\* ReadAfterLoop with a final 404 returned as an error
ReadAfterLoop_404Error(err) ==
    IF err # Nil
    THEN IF IsErrorResponse(err) /\ err.status = StatusNotModified THEN "return_nil"
         ELSE "return_err"
    ELSE "set"

\* ReadAfterLoop with every final error response taken for not-found
ReadAfterLoop_AnyTombstone(err) ==
    IF err # Nil
    THEN IF IsErrorResponse(err) /\ err.status = StatusNotModified THEN "return_nil"
         ELSE IF IsErrorResponse(err) THEN "tombstone"
         ELSE "return_err"
    ELSE "set"

\* The code after the loop.
ReadAfterLoop(err) ==
    IF err # Nil
    THEN IF IsErrorResponse(err) /\ err.status = StatusNotModified THEN "return_nil"
         ELSE IF IsErrorResponse(err) /\ err.status = StatusNotFound THEN "tombstone"
         ELSE "return_err"
    ELSE "set"

\* ReadSet with parent_team_id left as it was configured
ReadSet_KeepParent(dd, team, etag) ==
    [dd EXCEPT !.etag = etag,
               !.description = team.description,
               !.name = team.name,
               !.privacy = team.privacy,
               !.ldap_dn = team.ldap_dn,
               !.slug = Slug(team),
               !.node_id = NodeID(team),
               !.members_count = Len(team.members)]

\* d.Set of every field from the fetched team and the response header
ReadSet(dd, team, etag) ==
    [dd EXCEPT !.etag = etag,
               !.description = team.description,
               !.name = team.name,
               !.privacy = team.privacy,
               !.parent_team_id = IF team.parent # NoParent THEN FormatInt(team.parent)
                                  ELSE Empty,
               !.ldap_dn = team.ldap_dn,
               !.slug = Slug(team),
               !.node_id = NodeID(team),
               !.members_count = Len(team.members)]

\* Entry of Read up to its first fetch; o is the observation record of the
\* invocation, isNew is d.IsNewResource().
ReadEnter(r, dd, l, o, isNew) ==
    LET o1 == [o EXCEPT !.fn = "Read", !.d0 = dd, !.nGet = 0, !.only404 = TRUE]
        id == ParseInt(dd.id)
    IN  IF checkOrganization # Nil THEN Return(r, checkOrganization, dd, l, o1)
        ELSE IF ~id.ok THEN Return(r, unconvertibleIdErr, dd, l, o1)
        ELSE Goto(r, "read_get", dd,
                  [l EXCEPT !.id = id.val, !.i = 0,
                            !.ctxEtag = IF isNew THEN NoEtag
                                        ELSE [set |-> TRUE, val |-> dd.etag]],
                  o1)

StartRead(r) ==
    /\ r \in active /\ pc[r] = "idle" /\ nops < MaxOps
    /\ nops' = nops + 1
    /\ ReadEnter(r, d[r], NoLoc, Begin(obs[r], "Read", d[r]), FALSE)
    /\ UNCHANGED <<teams, nextId, env, flaky, meta, active>>

\* One fetch (the first one or a retry) and the code up to the next fetch or
\* the return.
ReadGet(r) ==
    /\ r \in active /\ pc[r] = "read_get"
    /\ \E rsp \in GetTeamByID(loc[r].id, loc[r].ctxEtag, obs[r].nGet + 1) :
         LET l1 == [loc[r] EXCEPT !.team = rsp.team, !.resp = rsp.etag, !.err = rsp.err]
             o1 == [obs[r] EXCEPT
                      !.nGet = @ + 1,
                      !.only404 = @ /\ (rsp.err = Nil \/ Is404(rsp.err))]
             inloop == ReadLoop(l1.i, l1.err)
             todo == IF inloop = "exit" THEN ReadAfterLoop(l1.err) ELSE inloop
         IN  CASE todo = "retry" -> Goto(r, "read_get", d[r], [l1 EXCEPT !.i = @ + 1], o1)
               [] todo = "return_nil" -> Return(r, Nil, d[r], l1, o1)
               [] todo = "return_err" -> Return(r, l1.err, d[r], l1, o1)
               [] todo = "tombstone" ->
                    Return(r, Nil, [d[r] EXCEPT !.id = Empty], l1, o1)
               [] todo = "set" ->
                    Return(r, Nil, ReadSet(d[r], l1.team, l1.resp), l1, o1)
    /\ UNCHANGED <<teams, nextId, env, flaky, meta, active, nops>>

\* ------------------------------------------------------ desired state
\* The configurations the host may hand to Create and Update.
ParentRefs == {Empty, FormatInt(9), <<"a">>}
Profiles ==
    {[name |-> <<"b">>, description |-> "", privacy |-> "secret", ldap_dn |-> "",
      create_default_maintainer |-> FALSE],
     [name |-> <<"b">>, description |-> "d", privacy |-> "closed", ldap_dn |-> "dn",
      create_default_maintainer |-> TRUE]}
Configs ==
    {[name |-> pf.name, description |-> pf.description, privacy |-> pf.privacy,
      parent_team_id |-> ref, ldap_dn |-> pf.ldap_dn,
      create_default_maintainer |-> pf.create_default_maintainer] :
        pf \in Profiles, ref \in ParentRefs}

\* The configuration of the team that the teams of Configs name as their
\* parent by its slug.
ParentConfigs ==
    {[name |-> OtherName, description |-> "", privacy |-> "closed",
      parent_team_id |-> Empty, ldap_dn |-> "",
      create_default_maintainer |-> TRUE]}

\* Each reconciler handles a resource of its own: the first a team that may
\* have a parent, the second that parent.
ConfigsOf(r) == IF r = 1 THEN Configs ELSE ParentConfigs

Desired(dd, cfg) ==
    [dd EXCEPT !.name = cfg.name, !.description = cfg.description,
               !.privacy = cfg.privacy, !.parent_team_id = cfg.parent_team_id,
               !.ldap_dn = cfg.ldap_dn,
               !.create_default_maintainer = cfg.create_default_maintainer]

\* ------------------------------------------- resourceGithubTeamCreate
\* CreateParentLoop without the retry
CreateParentLoop_NoRetry(i, err) == "exit"

\* ParentLookupFailed with the error left after the loop dropped
ParentLookupFailed_Ignored(err) == FALSE

\* The test after the parent lookup loop (of Create and of Update): the
\* last lookup has failed
ParentLookupFailed(err) == err # Nil

\* The parent lookup loop for loop variable i after a lookup that ended
\* with err.
CreateParentLoop(i, err) ==
    IF i < github_team_api_retry
    THEN IF err # Nil THEN "retry" ELSE "exit"
    ELSE "exit"

\* CreateCallFailed with the error of the create call dropped
CreateCallFailed_Ignored(err) == FALSE

\* The test of the create call's error
CreateCallFailed(err) == err # Nil

\* CreateStepFailed with the error of a step after the create call dropped
CreateStepFailed_Ignored(err) == FALSE

\* The test of the error of a step after the create call (the membership
\* query, a membership removal, the LDAP mapping)
CreateStepFailed(err) == err # Nil

\* The test of create_default_maintainer with the default members kept
\* whatever the flag says
RemovesDefaultMaintainer_Never(create_default_maintainer) == FALSE
\* if !create_default_maintainer { removeDefaultMaintainer(...) }
RemovesDefaultMaintainer(create_default_maintainer) == ~create_default_maintainer

\* The rest of Create after the team was created ("created"), after the
\* default members were removed ("removed") or after the LDAP mapping.
CreateTail(r, dd, l, o, from) ==
    IF from = "created" /\ RemovesDefaultMaintainer(dd.create_default_maintainer)
    THEN Goto(r, "create_query", dd, l, o)
    ELSE IF from \in {"created", "removed"} /\ dd.ldap_dn # ""
    THEN Goto(r, "create_ldap", dd, l, o)
    ELSE ReadEnter(r, [dd EXCEPT !.id = FormatInt(l.githubTeam.id)], l, o, TRUE)

StartCreate(r) ==
    /\ r \in active /\ pc[r] = "idle" /\ nops < MaxOps
    /\ nops' = nops + 1
    /\ \E cfg \in ConfigsOf(r) :
         LET dd == Desired(NoData, cfg)
             o1 == Begin(obs[r], "Create", dd)
             l1 == [NoLoc EXCEPT !.newTeam = [name |-> dd.name,
                                               description |-> dd.description,
                                               privacy |-> dd.privacy,
                                               parent |-> NoParent]]
         IN  IF checkOrganization # Nil THEN Return(r, checkOrganization, dd, l1, o1)
             ELSE IF dd.parent_team_id # Empty THEN Goto(r, "create_lookup", dd, l1, o1)
             ELSE Goto(r, "create_call", dd, l1, o1)
    /\ UNCHANGED <<teams, nextId, env, flaky, meta, active>>

CreateLookup(r) ==
    /\ r \in active /\ pc[r] = "create_lookup"
    /\ \E rsp \in getTeamID(d[r].parent_team_id, obs[r].nLookup + 1) :
         LET l1 == [loc[r] EXCEPT !.teamId = rsp.teamId, !.err = rsp.err]
             o1 == [obs[r] EXCEPT !.nLookup = @ + 1,
                                  !.nLookupOk = IF rsp.err = Nil THEN @ + 1 ELSE @,
                                  !.lookupId = IF rsp.err = Nil THEN rsp.teamId ELSE @]
         IN  IF CreateParentLoop(l1.i, l1.err) = "retry"
             THEN Goto(r, "create_lookup", d[r], [l1 EXCEPT !.i = @ + 1], o1)
             ELSE IF ParentLookupFailed(l1.err) THEN Return(r, l1.err, d[r], l1, o1)
             ELSE Goto(r, "create_call", d[r],
                       [l1 EXCEPT !.newTeam.parent = l1.teamId, !.i = 0], o1)
    /\ UNCHANGED <<teams, nextId, env, flaky, meta, active, nops>>

CreateCall(r) ==
    /\ r \in active /\ pc[r] = "create_call"
    /\ \E rsp \in CreateTeam(loc[r].newTeam, 1) :
         LET l1 == [loc[r] EXCEPT !.githubTeam = rsp.team, !.err = rsp.err]
             o1 == [obs[r] EXCEPT !.nCreate = @ + 1, !.nLookup = 0, !.nLookupOk = 0]
         IN  /\ teams' = rsp.teams
             /\ nextId' = rsp.nextId
             /\ IF CreateCallFailed(rsp.err) THEN Return(r, l1.err, d[r], l1, o1)
                ELSE CreateTail(r, d[r], l1, o1, "created")
    /\ UNCHANGED <<env, flaky, meta, active, nops>>

\* removeDefaultMaintainer: the membership query
CreateQuery(r) ==
    /\ r \in active /\ pc[r] = "create_query"
    /\ \E rsp \in MembersQuery(Slug(loc[r].githubTeam), 1) :
         LET l1 == [loc[r] EXCEPT !.nodes = rsp.nodes, !.err = rsp.err]
             o1 == [obs[r] EXCEPT !.nQuery = @ + 1, !.queried = rsp.nodes]
         IN  IF CreateStepFailed(rsp.err) THEN Return(r, l1.err, d[r], l1, o1)
             ELSE IF l1.nodes = <<>> THEN CreateTail(r, d[r], l1, o1, "removed")
             ELSE Goto(r, "create_remove", d[r], l1, o1)
    /\ UNCHANGED <<teams, nextId, env, flaky, meta, active, nops>>

\* removeDefaultMaintainer: one round of the loop over the members
CreateRemove(r) ==
    /\ r \in active /\ pc[r] = "create_remove"
    /\ \E rsp \in RemoveTeamMembershipBySlug(Slug(loc[r].githubTeam),
                                             Head(loc[r].nodes), obs[r].nRemove + 1) :
         LET l1 == [loc[r] EXCEPT !.nodes = Tail(@), !.err = rsp.err]
             o1 == [obs[r] EXCEPT !.nRemove = @ + 1,
                                  !.removed = Append(@, Head(loc[r].nodes))]
         IN  /\ teams' = rsp.teams
             /\ IF CreateStepFailed(rsp.err) THEN Return(r, l1.err, d[r], l1, o1)
                ELSE IF l1.nodes = <<>> THEN CreateTail(r, d[r], l1, o1, "removed")
                ELSE Goto(r, "create_remove", d[r], l1, o1)
    /\ UNCHANGED <<nextId, env, flaky, meta, active, nops>>

CreateLdap(r) ==
    /\ r \in active /\ pc[r] = "create_ldap"
    /\ \E rsp \in UpdateTeamLDAPMapping(loc[r].githubTeam.id, d[r].ldap_dn, 1) :
         LET l1 == [loc[r] EXCEPT !.err = rsp.err]
             o1 == [obs[r] EXCEPT !.nLdap = @ + 1]
         IN  /\ teams' = rsp.teams
             /\ IF CreateStepFailed(rsp.err) THEN Return(r, l1.err, d[r], l1, o1)
                ELSE CreateTail(r, d[r], l1, o1, "mapped")
    /\ UNCHANGED <<nextId, env, flaky, meta, active, nops>>

\* ------------------------------------------- resourceGithubTeamUpdate
\* UpdateParentLoop with one retry less
UpdateParentLoop_OneLess(i, err) ==
    IF i < github_team_api_retry - 1
    THEN IF err # Nil THEN "retry" ELSE "exit"
    ELSE "exit"

\* The parent lookup loop of Update
UpdateParentLoop(i, err) ==
    IF i < github_team_api_retry
    THEN IF err # Nil THEN "retry" ELSE "exit"
    ELSE "exit"

\* HasChange with the test Create makes of ldap_dn
HasChange_NonEmpty(old, new) == new # ""

\* d.HasChange(key): the value of the state and the configured value differ
HasChange(old, new) == old # new

\* Update from the parse of the identifier up to the edit call
UpdateParse(r, dd, l, o) ==
    LET id == ParseInt(dd.id)
    IN  IF ~id.ok THEN Return(r, unconvertibleIdErr, dd, l, o)
        ELSE Goto(r, "update_edit", dd, [l EXCEPT !.id = id.val], o)

\* The rest of Update after the edit call and after the LDAP mapping
UpdateTail(r, dd, l, o, from) ==
    IF from = "edited" /\ l.hasChangeLdap
    THEN Goto(r, "update_ldap", dd, l, o)
    ELSE ReadEnter(r, [dd EXCEPT !.id = FormatInt(l.githubTeam.id)], l, o, FALSE)

StartUpdate(r) ==
    /\ r \in active /\ pc[r] = "idle" /\ nops < MaxOps
    /\ nops' = nops + 1
    /\ \E cfg \in ConfigsOf(r) :
         LET dd == Desired(d[r], cfg)
             o1 == [Begin(obs[r], "Update", dd) EXCEPT !.ldap0 = d[r].ldap_dn]
             l1 == [NoLoc EXCEPT !.hasChangeLdap = HasChange(d[r].ldap_dn, dd.ldap_dn),
                                 !.newTeam = [name |-> dd.name,
                                              description |-> dd.description,
                                              privacy |-> dd.privacy,
                                              parent |-> NoParent]]
         IN  IF checkOrganization # Nil THEN Return(r, checkOrganization, dd, l1, o1)
             ELSE IF dd.parent_team_id # Empty THEN Goto(r, "update_lookup", dd, l1, o1)
             ELSE UpdateParse(r, dd, l1, o1)
    /\ UNCHANGED <<teams, nextId, env, flaky, meta, active>>

UpdateLookup(r) ==
    /\ r \in active /\ pc[r] = "update_lookup"
    /\ \E rsp \in getTeamID(d[r].parent_team_id, obs[r].nLookup + 1) :
         LET l1 == [loc[r] EXCEPT !.teamId = rsp.teamId, !.err = rsp.err]
             o1 == [obs[r] EXCEPT !.nLookup = @ + 1,
                                  !.nLookupOk = IF rsp.err = Nil THEN @ + 1 ELSE @,
                                  !.lookupId = IF rsp.err = Nil THEN rsp.teamId ELSE @]
         IN  IF UpdateParentLoop(l1.i, l1.err) = "retry"
             THEN Goto(r, "update_lookup", d[r], [l1 EXCEPT !.i = @ + 1], o1)
             ELSE IF ParentLookupFailed(l1.err) THEN Return(r, l1.err, d[r], l1, o1)
             ELSE UpdateParse(r, d[r],
                              [l1 EXCEPT !.newTeam.parent = l1.teamId, !.i = 0], o1)
    /\ UNCHANGED <<teams, nextId, env, flaky, meta, active, nops>>

UpdateEdit(r) ==
    /\ r \in active /\ pc[r] = "update_edit"
    /\ \E rsp \in EditTeamByID(loc[r].id, loc[r].newTeam, 1) :
         LET l1 == [loc[r] EXCEPT !.githubTeam = rsp.team, !.err = rsp.err]
             o1 == [obs[r] EXCEPT !.nEdit = @ + 1, !.nLookup = 0, !.nLookupOk = 0]
         IN  /\ teams' = rsp.teams
             /\ IF rsp.err # Nil THEN Return(r, l1.err, d[r], l1, o1)
                ELSE UpdateTail(r, d[r], l1, o1, "edited")
    /\ UNCHANGED <<nextId, env, flaky, meta, active, nops>>

UpdateLdap(r) ==
    /\ r \in active /\ pc[r] = "update_ldap"
    /\ \E rsp \in UpdateTeamLDAPMapping(loc[r].githubTeam.id, d[r].ldap_dn, 1) :
         LET l1 == [loc[r] EXCEPT !.err = rsp.err]
             o1 == [obs[r] EXCEPT !.nLdap = @ + 1]
         IN  /\ teams' = rsp.teams
             /\ IF rsp.err # Nil THEN Return(r, l1.err, d[r], l1, o1)
                ELSE UpdateTail(r, d[r], l1, o1, "mapped")
    /\ UNCHANGED <<nextId, env, flaky, meta, active, nops>>

\* ------------------------------------------- resourceGithubTeamDelete
\* DeleteConfirm without the confirm-absent path
DeleteConfirm_NoForget(err) == "return_err"

\* DeleteConfirm with every error response of the re-fetch taken for
\* not-found
DeleteConfirm_AnyForget(err) ==
    IF err # Nil
    THEN IF IsErrorResponse(err) THEN "forget" ELSE "return_err"
    ELSE "return_err"

\* The code after the re-fetch, whose error has replaced the delete
\* call's in err.
DeleteConfirm(err) ==
    IF err # Nil
    THEN IF IsErrorResponse(err) /\ err.status = StatusNotFound THEN "forget"
         ELSE "return_err"
    ELSE "return_err"

StartDelete(r) ==
    /\ r \in active /\ pc[r] = "idle" /\ nops < MaxOps
    /\ nops' = nops + 1
    /\ LET o1 == Begin(obs[r], "Delete", d[r])
           l1 == NoLoc
           id == ParseInt(d[r].id)
       IN  IF checkOrganization # Nil THEN Return(r, checkOrganization, d[r], l1, o1)
           ELSE IF ~id.ok THEN Return(r, unconvertibleIdErr, d[r], l1, o1)
           ELSE Goto(r, "delete_call", d[r], [l1 EXCEPT !.id = id.val], o1)
    /\ UNCHANGED <<teams, nextId, env, flaky, meta, active>>

DeleteCall(r) ==
    /\ r \in active /\ pc[r] = "delete_call"
    /\ \E rsp \in DeleteTeamByID(loc[r].id, 1) :
         LET l1 == [loc[r] EXCEPT !.err = rsp.err]
             o1 == [obs[r] EXCEPT !.delErr = rsp.err, !.nDelete = @ + 1]
         IN  /\ teams' = rsp.teams
             /\ IF rsp.err # Nil THEN Goto(r, "delete_get", d[r], l1, o1)
                ELSE Return(r, l1.err, d[r], l1, o1)
    /\ UNCHANGED <<nextId, env, flaky, meta, active, nops>>

DeleteGet(r) ==
    /\ r \in active /\ pc[r] = "delete_get"
    /\ \E rsp \in GetTeamByID(loc[r].id, NoEtag, 1) :
         LET l1 == [loc[r] EXCEPT !.err = rsp.err]
             o1 == [obs[r] EXCEPT
                      !.nGet = @ + 1,
                      !.only404 = @ /\ (rsp.err = Nil \/ Is404(rsp.err))]
         IN  IF DeleteConfirm(l1.err) = "forget"
             THEN Return(r, Nil, [d[r] EXCEPT !.id = Empty], l1, o1)
             ELSE Return(r, l1.err, d[r], l1, o1)
    /\ UNCHANGED <<teams, nextId, env, flaky, meta, active, nops>>

\* ------------------------------------------------------- plugin host
\* schema.ImportStatePassthrough: the identifier is whatever was typed
ImportIds == {FormatInt(t) : t \in TeamIds} \cup {<<"x">>}

Import(r) ==
    /\ r \in active /\ pc[r] = "idle" /\ obs[r].op = "none"
    /\ \E s \in ImportIds : d' = [d EXCEPT ![r] = [NoData EXCEPT !.id = s]]
    /\ obs' = [obs EXCEPT ![r] = [Begin(obs[r], "Import", d[r]) EXCEPT !.ret = Nil]]
    /\ UNCHANGED <<teams, nextId, env, flaky, meta, active, nops, pc, loc>>

\* ------------------------------------------------------ other actors
\* Other actors act while a handler runs: between two handlers the remote
\* side is read by nobody, so a change then is a change at the start of the
\* next handler.
Busy == \E r \in active : pc[r] # "idle"

\* A team made out of band (by another applier or by hand).
EnvCreate ==
    /\ "create" \in env /\ nextId \in TeamIds /\ Busy /\ ~NameTaken(OtherName, 0)
    /\ env' = env \ {"create"}
    /\ \E p \in {NoParent} \cup {t \in TeamIds : teams[t].present} :
         teams' = [teams EXCEPT ![nextId] =
                     [present |-> TRUE, id |-> nextId, name |-> OtherName,
                      description |-> "",
                      privacy |-> "secret", parent |-> p, ldap_dn |-> "",
                      members |-> <<Creator>>, ver |-> 1]]
    /\ nextId' = nextId + 1
    /\ UNCHANGED <<flaky, meta, active, nops, pc, d, loc, obs>>

\* A member added out of band to a team that has only its default
\* maintainer: the membership query then returns more than one node.
EnvAddMember ==
    /\ "member" \in env /\ Busy
    /\ env' = env \ {"member"}
    /\ \E t \in TeamIds :
         /\ teams[t].present /\ teams[t].members = <<Creator>>
         /\ teams' = [teams EXCEPT ![t].members = Append(@, OtherMember),
                                   ![t].ver = @ + 1]
    /\ UNCHANGED <<nextId, flaky, meta, active, nops, pc, d, loc, obs>>

\* A team deleted out of band; the remote deletes the teams below it too.
EnvDelete ==
    /\ "delete" \in env /\ Busy
    /\ env' = env \ {"delete"}
    /\ \E t \in TeamIds : teams[t].present /\ teams' = Removed(t)
    /\ UNCHANGED <<nextId, flaky, meta, active, nops, pc, d, loc, obs>>

\* ----------------------------------------------------- specification
Init ==
    /\ teams = [t \in TeamIds |-> NoTeam]
    /\ nextId = 9
    /\ env = {"create", "delete"}
    /\ flaky = TRUE
    /\ meta \in {[isOrganization |-> b] : b \in BOOLEAN}
    /\ active = {1}
    /\ nops = 0
    /\ pc = [r \in Reconcilers |-> "idle"]
    /\ d = [r \in Reconcilers |-> NoData]
    /\ loc = [r \in Reconcilers |-> NoLoc]
    /\ obs = [r \in Reconcilers |-> NoObs]

Next ==
    \/ \E r \in Reconcilers : StartCreate(r)
    \/ \E r \in Reconcilers : CreateLookup(r)
    \/ \E r \in Reconcilers : CreateCall(r)
    \/ \E r \in Reconcilers : CreateQuery(r)
    \/ \E r \in Reconcilers : CreateRemove(r)
    \/ \E r \in Reconcilers : CreateLdap(r)
    \/ \E r \in Reconcilers : StartUpdate(r)
    \/ \E r \in Reconcilers : UpdateLookup(r)
    \/ \E r \in Reconcilers : UpdateEdit(r)
    \/ \E r \in Reconcilers : UpdateLdap(r)
    \/ \E r \in Reconcilers : StartRead(r)
    \/ \E r \in Reconcilers : ReadGet(r)
    \/ \E r \in Reconcilers : StartDelete(r)
    \/ \E r \in Reconcilers : DeleteCall(r)
    \/ \E r \in Reconcilers : DeleteGet(r)
    \/ \E r \in Reconcilers : Import(r)
    \/ EnvCreate
    \/ EnvDelete

Spec == Init /\ [][Next]_vars

\* A handler runs on to its return: every remote call it makes comes back
\* (with a response or an error) and the sleep before a retry ends.
Step(r) ==
    \/ CreateLookup(r) \/ CreateCall(r) \/ CreateQuery(r) \/ CreateRemove(r)
    \/ CreateLdap(r)
    \/ UpdateLookup(r) \/ UpdateEdit(r) \/ UpdateLdap(r)
    \/ ReadGet(r)
    \/ DeleteCall(r) \/ DeleteGet(r)

\* One reconciler alone against the remote side, whose calls may fail or
\* lag in any order; no other actor changes the teams.
InitLive ==
    /\ teams = [t \in TeamIds |-> NoTeam]
    /\ nextId = 9
    /\ env = {}
    /\ flaky = TRUE
    /\ meta \in {[isOrganization |-> b] : b \in BOOLEAN}
    /\ active = {1}
    /\ nops = 0
    /\ pc = [r \in Reconcilers |-> "idle"]
    /\ d = [r \in Reconcilers |-> NoData]
    /\ loc = [r \in Reconcilers |-> NoLoc]
    /\ obs = [r \in Reconcilers |-> NoObs]

NextLive ==
    \/ \E r \in Reconcilers : StartCreate(r)
    \/ \E r \in Reconcilers : StartUpdate(r)
    \/ \E r \in Reconcilers : StartRead(r)
    \/ \E r \in Reconcilers : StartDelete(r)
    \/ \E r \in Reconcilers : Import(r)
    \/ \E r \in Reconcilers : Step(r)

SpecLive ==
    InitLive /\ [][NextLive]_vars /\ \A r \in Reconcilers : WF_vars(Step(r))

\* ------------------------------------- two reconcilers in parallel
\* Two reconcilers of one apply run, each on its own resource, against a
\* remote side that answers every call truthfully. They start either with
\* no team made yet, or with both teams made by an earlier run: the parent
\* (team 9) and, below it, the child (team 10), each reconciler holding the
\* state its Create and Read left.
ParentTeam ==
    [present |-> TRUE, id |-> 9, name |-> OtherName, description |-> "",
     privacy |-> "closed", parent |-> NoParent, ldap_dn |-> "",
     members |-> <<Creator>>, ver |-> 1]

ChildTeam ==
    [present |-> TRUE, id |-> 10, name |-> <<"b">>, description |-> "",
     privacy |-> "secret", parent |-> 9, ldap_dn |-> "",
     members |-> <<>>, ver |-> 2]

ChildConfig ==
    [name |-> <<"b">>, description |-> "", privacy |-> "secret",
     parent_team_id |-> <<"a">>, ldap_dn |-> "",
     create_default_maintainer |-> FALSE]

\* the resource data after Create and its Read have made team from cfg
Applied(cfg, team) ==
    ReadSet([Desired(NoData, cfg) EXCEPT !.id = FormatInt(team.id)], team, ETag(team))

InitPar ==
    /\ \/ /\ teams = [t \in TeamIds |-> NoTeam]
          /\ nextId = 9
          /\ d = [r \in Reconcilers |-> NoData]
       \/ /\ teams = [t \in TeamIds |-> IF t = ParentTeam.id THEN ParentTeam
                                        ELSE IF t = ChildTeam.id THEN ChildTeam
                                        ELSE NoTeam]
          /\ nextId = 11
          /\ d = [r \in Reconcilers |->
                    IF r = 1 THEN Applied(ChildConfig, ChildTeam)
                    ELSE Applied(CHOOSE cfg \in ParentConfigs : TRUE, ParentTeam)]
    /\ env = {}
    /\ flaky = FALSE
    /\ meta = [isOrganization |-> TRUE]
    /\ active = Reconcilers
    /\ nops = 0
    /\ pc = [r \in Reconcilers |-> "idle"]
    /\ loc = [r \in Reconcilers |-> NoLoc]
    /\ obs = [r \in Reconcilers |-> NoObs]

NextPar ==
    \/ \E r \in Reconcilers : StartCreate(r)
    \/ \E r \in Reconcilers : CreateLookup(r)
    \/ \E r \in Reconcilers : CreateCall(r)
    \/ \E r \in Reconcilers : CreateQuery(r)
    \/ \E r \in Reconcilers : CreateRemove(r)
    \/ \E r \in Reconcilers : CreateLdap(r)
    \/ \E r \in Reconcilers : StartUpdate(r)
    \/ \E r \in Reconcilers : UpdateLookup(r)
    \/ \E r \in Reconcilers : UpdateEdit(r)
    \/ \E r \in Reconcilers : UpdateLdap(r)
    \/ \E r \in Reconcilers : ReadGet(r)
    \/ \E r \in Reconcilers : StartDelete(r)
    \/ \E r \in Reconcilers : DeleteCall(r)
    \/ \E r \in Reconcilers : DeleteGet(r)

SpecPar == InitPar /\ [][NextPar]_vars

\* Creation with members added out of band: one reconciler creating teams
\* over an unreliable remote while another actor may add a member to a
\* team between the creation and the membership query.
InitMembers ==
    /\ teams = [t \in TeamIds |-> NoTeam]
    /\ nextId = 9
    /\ env = {"member"}
    /\ flaky = TRUE
    /\ meta = [isOrganization |-> TRUE]
    /\ active = {1}
    /\ nops = 0
    /\ pc = [r \in Reconcilers |-> "idle"]
    /\ d = [r \in Reconcilers |-> NoData]
    /\ loc = [r \in Reconcilers |-> NoLoc]
    /\ obs = [r \in Reconcilers |-> NoObs]

NextMembers ==
    \/ \E r \in Reconcilers : StartCreate(r)
    \/ \E r \in Reconcilers : CreateLookup(r)
    \/ \E r \in Reconcilers : CreateCall(r)
    \/ \E r \in Reconcilers : CreateQuery(r)
    \/ \E r \in Reconcilers : CreateRemove(r)
    \/ \E r \in Reconcilers : CreateLdap(r)
    \/ \E r \in Reconcilers : ReadGet(r)
    \/ EnvAddMember

SpecMembers == InitMembers /\ [][NextMembers]_vars

\* =========================================================== claims
Returned(r, op) == pc[r] = "idle" /\ obs[r].op = op /\ obs[r].ret # Running
\* Read (invoked by the host or as the tail of Create or Update) has
\* returned after at least one fetch
ReadReturned(r) == pc[r] = "idle" /\ obs[r].fn = "Read" /\ obs[r].nGet > 0
AllFetches == github_team_api_retry + 1
\* Delete has returned after a failed delete call and its re-fetch
DeleteRefetched(r) ==
    Returned(r, "Delete") /\ obs[r].delErr # Nil /\ obs[r].nGet = 1

\* C1 (as claimed): when the delete call fails (for another reason than the
\* team being gone) and the re-fetch finds the team, Delete returns the
\* delete call's error and keeps the identifier.
C1_DeleteReportsFailure ==
    \A r \in Reconcilers :
        (DeleteRefetched(r) /\ ~Is404(obs[r].delErr) /\ loc[r].err = Nil)
            => (obs[r].ret = obs[r].delErr /\ d[r].id = obs[r].d0.id)

\* C2: when the delete call fails and the re-fetch is answered 404, Delete
\* returns nil and the identifier is empty.
C2_RaceTolerantDelete ==
    \A r \in Reconcilers :
        (DeleteRefetched(r) /\ Is404(loc[r].err))
            => (obs[r].ret = Nil /\ d[r].id = Empty)

C2_Witness ==
    \E r \in Reconcilers :
        /\ DeleteRefetched(r) /\ Is404(loc[r].err)
        /\ obs[r].d0.id # Empty /\ d[r].id = Empty /\ obs[r].ret = Nil

\* C3: when the first fetch and every retry of Read are answered 404, Read
\* has made all its fetches, returns nil and leaves the identifier empty.
C3_ReadTombstones ==
    \A r \in Reconcilers :
        (ReadReturned(r) /\ obs[r].only404 /\ loc[r].err # Nil)
            => (obs[r].nGet = AllFetches /\ obs[r].ret = Nil /\ d[r].id = Empty)

C3_Witness ==
    \E r \in Reconcilers :
        /\ ReadReturned(r) /\ obs[r].only404 /\ Is404(loc[r].err)
        /\ obs[r].nGet = AllFetches /\ obs[r].d0.id # Empty /\ d[r].id = Empty

\* the fields Read stores are those of the fetched team and its ETag
StateIsResponse(dd, team, etag) ==
    /\ dd.etag = etag
    /\ dd.name = team.name /\ dd.description = team.description
    /\ dd.privacy = team.privacy /\ dd.ldap_dn = team.ldap_dn
    /\ dd.slug = team.name /\ dd.node_id = <<"T">> \o FormatInt(team.id)
    /\ dd.members_count = Len(team.members)
    /\ dd.parent_team_id = IF team.parent = NoParent THEN Empty
                           ELSE FormatInt(team.parent)

\* C4: when the fetches of Read are answered 404 k times and then with the
\* team, Read returns nil, keeps the identifier and stores the fields of that
\* response; and Read empties the identifier only when the last of all its
\* fetches was answered 404, never on an earlier 404.
C4_ReadRecovers ==
    \A r \in Reconcilers :
        /\ (ReadReturned(r) /\ obs[r].only404 /\ loc[r].err = Nil)
              => /\ obs[r].ret = Nil
                 /\ d[r].id = obs[r].d0.id
                 /\ loc[r].team.present
                 /\ StateIsResponse(d[r], loc[r].team, loc[r].resp)
        /\ (ReadReturned(r) /\ d[r].id # obs[r].d0.id)
              => (Is404(loc[r].err) /\ obs[r].nGet = AllFetches /\ d[r].id = Empty)

C4_Witness ==
    \E r \in Reconcilers :
        /\ ReadReturned(r) /\ obs[r].only404 /\ loc[r].err = Nil
        /\ obs[r].nGet = github_team_api_retry
        /\ obs[r].ret = Nil /\ d[r].id # Empty /\ d[r].etag = loc[r].resp

\* C5 (as claimed): Read returns an error of a fetch only after all its
\* fetches were made.
C5_EveryErrorRetried ==
    \A r \in Reconcilers :
        (ReadReturned(r) /\ obs[r].ret # Nil) => obs[r].nGet = AllFetches

\* C5 (amended): a fetch that fails with an error response other than 304 is
\* retried until all fetches were made, and only then is such an error
\* returned; an error that is no error response is returned at once.
C5_ErrorResponsesRetried ==
    \A r \in Reconcilers :
        /\ (ReadReturned(r) /\ IsErrorResponse(loc[r].err) /\ ~Is304(loc[r].err))
              => obs[r].nGet = AllFetches
        /\ (ReadReturned(r) /\ obs[r].ret # Nil)
              => /\ obs[r].ret = loc[r].err
                 /\ obs[r].ret.n = obs[r].nGet
                 /\ ~IsErrorResponse(obs[r].ret) \/ obs[r].nGet = AllFetches
        /\ (ReadReturned(r) /\ loc[r].err.kind = "error")
              => obs[r].ret = loc[r].err

C5_Witness ==
    \E r \in Reconcilers :
        /\ ReadReturned(r) /\ IsErrorResponse(obs[r].ret)
        /\ obs[r].ret.status \in OtherStatuses
        /\ obs[r].nGet = AllFetches /\ ~obs[r].only404

\* C6: when a fetch of Read (the first or a retry) is answered 304, Read
\* returns nil and the resource data is what it was at entry.
C6_NotModifiedNoOp ==
    \A r \in Reconcilers :
        (ReadReturned(r) /\ Is304(loc[r].err))
            => (obs[r].ret = Nil /\ d[r] = obs[r].d0)

C6_Witness ==
    \E r \in Reconcilers :
        /\ ReadReturned(r) /\ Is304(loc[r].err) /\ obs[r].nGet > 1
        /\ d[r].etag # Empty /\ d[r] = obs[r].d0

\* C7: when Create is about to issue CreateTeam with parent_team_id set, a
\* lookup has succeeded, however many failed before it, and ParentTeamID is
\* the id that lookup returned; Create returns no lookup error but that of
\* the last attempt of the budget.
C7_CreateParentResolved ==
    \A r \in Reconcilers :
        /\ (pc[r] = "create_call" /\ d[r].parent_team_id # Empty)
              => /\ obs[r].nLookupOk = 1
                 /\ obs[r].nLookup <= AllFetches
                 /\ loc[r].newTeam.parent = obs[r].lookupId
                 /\ loc[r].newTeam.parent # NoParent
        /\ (Returned(r, "Create") /\ obs[r].ret.api = "getTeamID")
              => (obs[r].nLookupOk = 0 /\ obs[r].ret.n = AllFetches)

C7_Witness ==
    \E r \in Reconcilers :
        /\ pc[r] = "create_call" /\ obs[r].nLookup = AllFetches
        /\ obs[r].nLookupOk = 1 /\ loc[r].newTeam.parent = obs[r].lookupId

\* C8 (as claimed): when every parent lookup fails, Create and Update return
\* the last lookup's error after github_team_api_retry lookups.
C8_ParentFailsAfterRetryCalls ==
    \A r \in Reconcilers :
        ((Returned(r, "Create") \/ Returned(r, "Update"))
            /\ obs[r].ret.api = "getTeamID")
            => (obs[r].nLookup = github_team_api_retry /\ obs[r].ret = loc[r].err)

\* C8 (amended): when every parent lookup fails, Create and Update return
\* the last lookup's error after 1 + github_team_api_retry lookups.
C8_ParentFailsAfterAllCalls ==
    \A r \in Reconcilers :
        ((Returned(r, "Create") \/ Returned(r, "Update"))
            /\ obs[r].ret.api = "getTeamID")
            => /\ obs[r].nLookup = github_team_api_retry + 1
               /\ obs[r].nLookupOk = 0
               /\ obs[r].ret = loc[r].err
               /\ obs[r].ret.n = obs[r].nLookup

C8_Witness ==
    \E r \in Reconcilers :
        /\ Returned(r, "Update") /\ obs[r].ret.api = "getTeamID"
        /\ obs[r].nLookup = github_team_api_retry + 1 /\ obs[r].nLookupOk = 0

\* C9 (as claimed): a Read that follows a Delete that returned nil returns
\* nil and leaves the identifier empty (as long as no fetch of that Read
\* fails with anything but 404).
C9_DeleteThenReadTombstone ==
    \A r \in Reconcilers :
        (Returned(r, "Read") /\ obs[r].prevOp = "Delete" /\ obs[r].prevOk
            /\ obs[r].only404)
            => (obs[r].ret = Nil /\ d[r].id = Empty)

\* C10 (as claimed): when Create returns nil, the identifier is the decimal
\* id of the created team.
C10_CreateReturnsId ==
    \A r \in Reconcilers :
        (Returned(r, "Create") /\ obs[r].ret = Nil)
            => (d[r].id # Empty /\ d[r].id = FormatInt(loc[r].githubTeam.id))

\* C10 (amended): when Create returns nil, the identifier is the decimal id
\* of the created team, or it is empty and the follow-up Read has made all
\* its fetches, the last of them answered 404.
C10_CreateReturnsIdOrTombstone ==
    \A r \in Reconcilers :
        (Returned(r, "Create") /\ obs[r].ret = Nil)
            => /\ obs[r].nCreate = 1 /\ loc[r].githubTeam.present
               /\ \/ d[r].id = FormatInt(loc[r].githubTeam.id)
                  \/ /\ d[r].id = Empty
                     /\ Is404(loc[r].err)
                     /\ obs[r].nGet = AllFetches

C10_Witness ==
    \E r \in Reconcilers :
        /\ Returned(r, "Create") /\ obs[r].ret = Nil /\ obs[r].nGet > 1
        /\ d[r].id = FormatInt(loc[r].githubTeam.id) /\ Len(d[r].id) = 2

\* Create has returned after CreateTeam succeeded and before its follow-up
\* Read
CreateStepReturned(r) ==
    /\ Returned(r, "Create") /\ obs[r].fn = "Create"
    /\ obs[r].nCreate = 1 /\ loc[r].githubTeam.present

SecondaryApis == {"Query", "RemoveTeamMembershipBySlug", "UpdateTeamLDAPMapping"}

\* C11: when CreateTeam succeeds and a following step (the membership query,
\* a membership removal, the LDAP mapping) fails, Create returns that step's
\* error, has issued no delete call, and the created team is still present
\* (unless another actor has deleted it); Create goes on to its follow-up
\* Read only when no step has failed.
C11_NoRollback ==
    \A r \in Reconcilers :
        /\ CreateStepReturned(r)
              => /\ obs[r].ret # Nil
                 /\ obs[r].ret = loc[r].err
                 /\ obs[r].ret.api \in SecondaryApis
                 /\ obs[r].nDelete = 0
                 /\ teams[loc[r].githubTeam.id].present \/ "delete" \notin env
        /\ (obs[r].op = "Create" /\ pc[r] \in {"create_remove", "create_ldap"})
              => loc[r].err = Nil
        /\ (obs[r].op = "Create" /\ pc[r] = "read_get" /\ obs[r].nGet = 0)
              => loc[r].err = Nil

C11_Witness ==
    \E r \in Reconcilers :
        /\ CreateStepReturned(r)
        /\ obs[r].ret.api = "UpdateTeamLDAPMapping"
        /\ teams[loc[r].githubTeam.id].present
        /\ teams[loc[r].githubTeam.id].ldap_dn = ""

\* C12: Create issues CreateTeam at most once, and when that call fails
\* Create has returned its error and has issued no other remote call after
\* it.
C12_CreateNotRetried ==
    \A r \in Reconcilers :
        obs[r].op = "Create"
            => /\ obs[r].nCreate <= 1
               /\ (obs[r].nCreate = 1 /\ ~loc[r].githubTeam.present)
                     => /\ Returned(r, "Create")
                        /\ obs[r].ret # Nil
                        /\ obs[r].ret = loc[r].err
                        /\ obs[r].ret.api = "CreateTeam"
                        /\ obs[r].nLookup = 0 /\ obs[r].nQuery = 0
                        /\ obs[r].nRemove = 0 /\ obs[r].nLdap = 0
                        /\ obs[r].nGet = 0 /\ obs[r].nEdit = 0
                        /\ obs[r].nDelete = 0

C12_Witness ==
    \E r \in Reconcilers :
        /\ Returned(r, "Create") /\ obs[r].nCreate = 1
        /\ obs[r].ret.api = "CreateTeam" /\ obs[r].ret.status = 422
        /\ obs[r].nGet = 0

\* the edit call of Update has succeeded
EditSucceeded(r) == obs[r].nEdit = 1 /\ loc[r].githubTeam.present
\* the configured ldap_dn differs from that of the state Update started with
LdapChanged(r) == obs[r].d0.ldap_dn # obs[r].ldap0

\* C13: Update issues UpdateTeamLDAPMapping exactly when the edit call has
\* succeeded and the configured ldap_dn differs from that of the state: it
\* is about to issue it only then, and past that point it has issued it
\* once in that case and not at all otherwise.
C13_LdapOnlyOnChange ==
    \A r \in Reconcilers :
        obs[r].op = "Update"
            => /\ pc[r] = "update_ldap"
                     => (obs[r].nLdap = 0 /\ EditSucceeded(r) /\ LdapChanged(r))
               /\ pc[r] # "update_ldap"
                     => /\ obs[r].nLdap <= 1
                        /\ obs[r].nLdap = 1 <=> (EditSucceeded(r) /\ LdapChanged(r))

C13_Witness ==
    \E r \in Reconcilers :
        /\ Returned(r, "Update") /\ obs[r].nLdap = 1 /\ obs[r].ret = Nil
        /\ EditSucceeded(r) /\ obs[r].ldap0 = "" /\ obs[r].d0.ldap_dn = "dn"

\* Delete has returned after a failed delete call and a re-fetch that failed
\* with another error than 404
DeleteUnconfirmed(r) ==
    DeleteRefetched(r) /\ loc[r].err # Nil /\ ~Is404(loc[r].err)

\* C14 (as claimed): when the delete call fails and the re-fetch fails with
\* an error that is no 404, Delete returns the delete call's error.
C14_DeleteReturnsDeleteError ==
    \A r \in Reconcilers :
        DeleteUnconfirmed(r) => obs[r].ret = obs[r].delErr

\* C14 (amended): when the delete call fails and the re-fetch fails with an
\* error that is no 404, Delete returns the re-fetch's error, not the delete
\* call's, and keeps the identifier.
C14_DeleteReturnsRefetchError ==
    \A r \in Reconcilers :
        DeleteUnconfirmed(r)
            => /\ obs[r].ret = loc[r].err
               /\ obs[r].ret.api = "GetTeamByID"
               /\ obs[r].ret # obs[r].delErr
               /\ d[r].id = obs[r].d0.id

C14_Witness ==
    \E r \in Reconcilers :
        /\ DeleteUnconfirmed(r)
        /\ obs[r].delErr.api = "DeleteTeamByID"
        /\ IsErrorResponse(obs[r].ret) /\ obs[r].ret.status \in OtherStatuses
        /\ d[r].id # Empty

\* a call that carries a parent is about to be issued
ParentCallPending(r) ==
    pc[r] \in {"create_call", "update_edit"} /\ d[r].parent_team_id # Empty
\* team t is or has been present on the remote side, which hands out its
\* ids in ascending order
HasExisted(t) == t \in TeamIds /\ t < nextId

\* C15: with two reconcilers in parallel, Create is about to issue CreateTeam
\* with a parent, and Update EditTeamByID with a parent, only after a parent
\* lookup has succeeded; the parent id it carries is the id that lookup
\* returned, the id of a team that has existed by then; and a team created
\* with a parent was created after its parent.
C15_ChildAfterParent ==
    \A r \in Reconcilers :
        /\ ParentCallPending(r)
              => /\ obs[r].nLookupOk = 1
                 /\ loc[r].newTeam.parent = obs[r].lookupId
                 /\ HasExisted(loc[r].newTeam.parent)
        /\ (obs[r].op = "Create" /\ loc[r].githubTeam.present
              /\ d[r].parent_team_id # Empty)
              => /\ HasExisted(loc[r].githubTeam.parent)
                 /\ loc[r].githubTeam.parent < loc[r].githubTeam.id

C15_Witness ==
    /\ pc[1] = "create_call" /\ d[1].parent_team_id # Empty
    /\ obs[1].nLookup > 1 /\ obs[1].nLookupOk = 1
    /\ obs[2].op = "Create" /\ loc[2].githubTeam.present
    /\ loc[1].newTeam.parent = loc[2].githubTeam.id

\* C16: with two reconcilers in parallel, when each has run Delete on its
\* team through the delete call, both have returned nil and both teams are
\* absent on the remote side.
C16_ParallelDelete ==
    (/\ \A r \in Reconcilers : Returned(r, "Delete") /\ obs[r].nDelete = 1
     /\ loc[1].id # loc[2].id)
        => \A r \in Reconcilers : obs[r].ret = Nil /\ ~Present(loc[r].id)

C16_Witness ==
    /\ \A r \in Reconcilers : Returned(r, "Delete") /\ obs[r].ret = Nil
    /\ loc[2].id = ParentTeam.id /\ obs[2].delErr = Nil
    /\ loc[1].id = ChildTeam.id /\ Is404(obs[1].delErr) /\ Is404(loc[1].err)
    /\ d[1].id = Empty
    /\ \A t \in TeamIds : ~teams[t].present

\* C17: after a fetch of Read has succeeded, Read returns nil, etag is the
\* ETag of the response and description, name, privacy, ldap_dn, slug,
\* node_id and members_count are those of the remote team; parent_team_id is
\* empty when that team has no parent and else the decimal form of the
\* parent's id, whatever the configured reference was.
C17_ReadOverwrites ==
    \A r \in Reconcilers :
        (ReadReturned(r) /\ loc[r].err = Nil)
            => LET remote == teams[loc[r].id]
               IN  /\ obs[r].ret = Nil
                   /\ remote.present /\ loc[r].team = remote
                   /\ d[r].id = obs[r].d0.id /\ ParseInt(d[r].id).val = remote.id
                   /\ d[r].etag = loc[r].resp /\ d[r].etag = ETag(remote)
                   /\ d[r].description = remote.description
                   /\ d[r].name = remote.name
                   /\ d[r].privacy = remote.privacy
                   /\ d[r].ldap_dn = remote.ldap_dn
                   /\ d[r].slug = Slug(remote)
                   /\ d[r].node_id = NodeID(remote)
                   /\ d[r].members_count = Len(remote.members)
                   /\ IF remote.parent = NoParent
                      THEN d[r].parent_team_id = Empty
                      ELSE /\ d[r].parent_team_id = FormatInt(remote.parent)
                           /\ ParseInt(d[r].parent_team_id) =
                                 [ok |-> TRUE, val |-> remote.parent]

C17_Witness ==
    \E r \in Reconcilers :
        /\ ReadReturned(r) /\ loc[r].err = Nil
        /\ obs[r].d0.parent_team_id = <<"a">>
        /\ teams[loc[r].id].parent = 9
        /\ d[r].parent_team_id = <<"9">>

\* C18 (as claimed): when Update has returned nil (its edit call succeeded
\* and its Read fetched the team at once), the remote team's parent is the
\* team the configured parent_team_id was resolved to, and the remote team
\* has no parent when none is configured.
C18_UpdateConvergesParent ==
    \A r \in Reconcilers :
        (Returned(r, "Update") /\ obs[r].ret = Nil /\ EditSucceeded(r)
            /\ obs[r].nGet = 1 /\ loc[r].err = Nil)
            => IF obs[r].d0.parent_team_id = Empty
               THEN teams[loc[r].id].parent = NoParent
               ELSE teams[loc[r].id].parent = obs[r].lookupId

\* the remote calls of the running (or last) handler of r are within their
\* bounds
CallsBounded(r) ==
    /\ loc[r].i <= github_team_api_retry
    /\ obs[r].nLookup <= AllFetches
    /\ obs[r].nGet <= (IF obs[r].op = "Delete" THEN 1 ELSE AllFetches)
    /\ obs[r].nCreate <= 1 /\ obs[r].nEdit <= 1 /\ obs[r].nDelete <= 1
    /\ obs[r].nQuery <= 1 /\ obs[r].nLdap <= 1
    /\ obs[r].nRemove <= obs[r].nQuery
    /\ (Returned(r, "Delete") /\ obs[r].ret.api \notin {"checkOrganization", "ParseInt"})
          => /\ obs[r].nDelete = 1
             /\ obs[r].nGet = (IF obs[r].delErr = Nil THEN 0 ELSE 1)

\* C19: every handler that has been invoked returns, and on the way no
\* lookup loop makes more than 1 + github_team_api_retry calls (GetTeamByID
\* in Read, getTeamID in Create and Update), every other call is made at
\* most once (one removal for the one default member), and a Delete that
\* gets past its checks makes exactly one delete call and one re-fetch if
\* and only if that call failed.
C19_Terminates ==
    /\ [](\A r \in Reconcilers : CallsBounded(r))
    /\ \A r \in Reconcilers : (pc[r] # "idle") ~> (pc[r] = "idle")

C19_Witness ==
    \E r \in Reconcilers :
        /\ Returned(r, "Update") /\ obs[r].fn = "Read"
        /\ obs[r].nGet = AllFetches /\ obs[r].nEdit = 1 /\ obs[r].nLdap = 1
        /\ obs[r].ret # Nil

\* C20: a step of a handler takes the identifier from non-empty to empty
\* only when the response it has just got, the most recent of that handler,
\* is a 404 of GetTeamByID; in Read that response is the last of all its
\* fetches. No other error clears the identifier, nor does a 404 that a
\* later fetch of the same Read has followed.
C20_ClearedOnlyOnNotFound ==
    [][\A r \in Reconcilers :
          (pc[r] # "idle" /\ d[r].id # Empty /\ d'[r].id = Empty)
              => /\ Is404(loc'[r].err)
                 /\ loc'[r].err.api = "GetTeamByID"
                 /\ loc'[r].err.n = obs'[r].nGet
                 /\ obs'[r].nGet = obs[r].nGet + 1
                 /\ obs'[r].fn = "Read" => obs'[r].nGet = AllFetches
                 /\ obs'[r].fn # "Read" => (obs'[r].op = "Delete" /\ obs'[r].delErr # Nil)]_vars

C20_Witness ==
    \E r \in Reconcilers :
        /\ Returned(r, "Update") /\ obs[r].fn = "Read"
        /\ obs[r].d0.id # Empty /\ d[r].id = Empty
        /\ Is404(loc[r].err) /\ ~obs[r].only404
        /\ obs[r].ret = Nil

\* the first n elements of a sequence
Prefix(seq, n) == SubSeq(seq, 1, n)
\* Create is past the point where the default members are dealt with: it
\* is mapping the LDAP group, runs Read as its tail or has returned nil
PastRemoval(r) ==
    \/ pc[r] \in {"create_ldap", "read_get"}
    \/ obs[r].fn = "Read"
    \/ (pc[r] = "idle" /\ obs[r].ret = Nil)
\* Create has returned the error of a membership-removal call
RemovalFailed(r) ==
    /\ Returned(r, "Create") /\ obs[r].fn = "Create"
    /\ obs[r].ret # Nil /\ obs[r].ret.api = "RemoveTeamMembershipBySlug"

\* C21: Create removes the default members exactly when
\* create_default_maintainer is false. With the flag true it issues neither
\* the membership query nor a removal call. With the flag false it queries
\* the members once and issues the removal calls for the members the query
\* returned, one each, in the order returned: the calls issued so far are
\* for a prefix of the returned list, the members still to go are the rest
\* of it, a Create that got past the removal has issued a call for every
\* returned member, a further call is issued only after the calls before
\* it succeeded, and a Create that stopped before that returned the
\* error of the last call it issued, the first removal that failed (or the
\* error of the create call or of the query, with no removal issued).
C21_RemovesDefaultMembers ==
    \A r \in Reconcilers :
        obs[r].op = "Create" =>
            LET o == obs[r]
                flag == o.d0.create_default_maintainer
            IN  /\ flag => (o.nQuery = 0 /\ o.nRemove = 0)
                /\ o.nQuery <= 1
                /\ o.nRemove = Len(o.removed)
                /\ o.nRemove <= Len(o.queried)
                /\ o.removed = Prefix(o.queried, o.nRemove)
                /\ pc[r] = "create_remove" =>
                       /\ loc[r].nodes # <<>>
                       /\ o.removed \o loc[r].nodes = o.queried
                       /\ loc[r].err = Nil
                /\ (~flag /\ PastRemoval(r) /\ o.nCreate = 1) =>
                       (o.nQuery = 1 /\ o.removed = o.queried)
                /\ RemovalFailed(r) =>
                       (o.ret.n = o.nRemove /\ o.ret = loc[r].err)
                /\ (Returned(r, "Create") /\ o.fn = "Create"
                       /\ o.nRemove < Len(o.queried)) => RemovalFailed(r)
                /\ (Returned(r, "Create") /\ o.fn = "Create" /\ o.ret # Nil
                       /\ ~RemovalFailed(r) /\ o.nQuery = 1) =>
                       (o.ret.api = "Query" /\ o.nRemove = 0)
\* Create with the flag false found two members and stopped at the first
\* removal, which failed: the second member was not asked to be removed
C21_Witness ==
    \E r \in Reconcilers :
        /\ RemovalFailed(r) /\ ~obs[r].d0.create_default_maintainer
        /\ obs[r].queried = <<Creator, OtherMember>>
        /\ obs[r].removed = <<Creator>>
        /\ \E t \in TeamIds : teams[t].present /\ teams[t].members = <<Creator, OtherMember>>
\* Create with the flag false asked for both of the two members it found
C21_WitnessAll ==
    \E r \in Reconcilers :
        /\ Returned(r, "Create") /\ obs[r].ret = Nil
        /\ obs[r].queried = <<Creator, OtherMember>>
        /\ obs[r].removed = <<Creator, OtherMember>>
\* Create with the flag true has returned nil
C21_WitnessKept ==
    \E r \in Reconcilers :
        /\ Returned(r, "Create") /\ obs[r].ret = Nil
        /\ obs[r].d0.create_default_maintainer /\ obs[r].nCreate = 1
====
